---- MODULE Spec2Model ----
(***************************************************************************)
(* YouTube Transcript Proxy (Google Apps Script).                          *)
(*                                                                         *)
(* The repository holds three deployable variants of one script:          *)
(*   "cookies"  src/unnamed/part_000       watch page + Innertube, with    *)
(*                                         YT_COOKIES and a cookie-free    *)
(*                                         watch-page retry                *)
(*   "basic"    src/google_apps_script.js  watch page + Innertube          *)
(*   "clients"  src/unnamed/part_001       one Innertube call per entry of *)
(*                                         the CLIENTS table               *)
(* A doPost request is modelled between its outbound UrlFetchApp.fetch    *)
(* calls: every action consumes the response of the request in flight and  *)
(* runs the handler up to the next fetch or to its return.                 *)
(*                                                                         *)
(* JavaScript strings that the code takes apart or concatenates are        *)
(* sequences of pieces (characters or fixed fragments); the empty sequence *)
(* stands for both "" and an absent (undefined) field, which the code      *)
(* never tells apart (it only tests them with ||, !, === "..." ).          *)
(***************************************************************************)
EXTENDS Integers, Sequences, FiniteSets, TLC

VARIABLES
    script,     \* which variant is deployed
    props,      \* Script Properties: the stored YT_COOKIES string
    pc,         \* position of the handler: which response it waits for
    cookies,    \* doPost's local `cookies`
    strategy,   \* number of the strategy (or CLIENTS index + 1) running
    invoked,    \* strategy invocations so far, in order
    results,    \* the failure outcomes kept by doPost (result, result2, result3)
    tracks,     \* the running strategy's caption-track list
    track,      \* what pickTrack returned for `tracks`
    f,          \* fetchCaptions' loop index into `formats` (1-based)
    videoId,    \* doPost's local `videoId`
    requests,   \* every outbound UrlFetchApp.fetch issued so far, in order
    reply,      \* the upstream response the handler consumed last
    answered,   \* the position in `requests` of the request `reply` answers
    response,   \* what doPost handed to respond(), once it returned
    scan,       \* extractJson's arguments and locals (html, startIdx, i, ...)
    obtained,   \* per strategy call, the non-OK playabilityStatus it read, if any
    me,         \* which of two concurrent executions the variables above belong to
    other,      \* the same variables of the execution that is not running now
    world       \* what the two executions post and what upstream answers them

vars == <<script, props, pc, cookies, strategy, invoked, results, tracks,
          track, f, videoId, requests, reply, answered, response, scan,
          obtained, me, other, world>>

(***************************************************************************)
(* Bounds of the model.                                                    *)
(***************************************************************************)
MaxPickLen == 3     \* longest track list given to pickTrack on its own
MaxTracks == 2      \* longest captionTracks list an upstream response carries
MaxPieces == 2      \* most pieces inside a JSON string value given to extractJson
MaxParams == 2      \* most query parameters of a baseUrl besides sparams
MaxEntries == 2     \* most entries of a baseUrl's sparams list
MaxTail == 3        \* most runs after the first character of an arbitrary text

(***************************************************************************)
(* Strings.                                                                *)
(***************************************************************************)
Empty == << >>

\* String.prototype.indexOf(sub): 0-based index of the first occurrence, or -1.
IndexOf(s, sub) ==
    LET hits == {i \in 1..(Len(s) - Len(sub) + 1) :
                    SubSeq(s, i, i + Len(sub) - 1) = sub}
    IN  IF hits = {} THEN -1
        ELSE (CHOOSE i \in hits : \A j \in hits : i <= j) - 1

\* JavaScript a || b on strings: the empty (or absent) string is falsy.
OrElse(a, b) == IF a # Empty THEN a ELSE b

Contains(s, sub) == IndexOf(s, sub) # -1

en == <<"e", "n">>
enUS == <<"e", "n", "-", "U", "S">>
fr == <<"f", "r">>
ben == <<"b", "e", "n">>

(***************************************************************************)
(* Caption tracks.                                                         *)
(***************************************************************************)
Null == [null |-> TRUE]

LanguageCodes == {Empty, en, enUS, fr, ben}
Kinds == {"", "asr"}

Track(lc, kind, url) ==
    [languageCode |-> lc, kind |-> kind, name |-> "", baseUrl |-> url]

\* All sequences over S of length 0..n.
SeqsUpTo(S, n) == UNION {[1..k -> S] : k \in 0..n}

\* The least index of a set of matching indices (the `for` loop that returns
\* on its first match), 0 when the loop runs to its end.
FirstMatch(hits) ==
    IF hits = {} THEN 0 ELSE CHOOSE i \in hits : \A j \in hits : i <= j

\* The tests of pickTrack's first three loops.
\* (mutation: the first loop takes a manual track of any English variant)
Tier1ManualVariant(t) ==
    IndexOf(OrElse(t.languageCode, Empty), <<"e", "n">>) = 0 /\ t.kind # "asr"
Tier1(t) == t.languageCode = en /\ t.kind # "asr"

Tier2(t) == t.languageCode = en

\* (mutation: "en" anywhere in the code, indexOf(...) !== -1)
Tier3Anywhere(t) == IndexOf(OrElse(t.languageCode, Empty), en) # -1
Tier3(t) == IndexOf(OrElse(t.languageCode, Empty), en) = 0

\* (mutation: no fourth tier, null when no English track exists)
pickTrackEnglishOnly(list) ==
    LET first1 == FirstMatch({i \in DOMAIN list : Tier1(list[i])})
        first2 == FirstMatch({i \in DOMAIN list : Tier2(list[i])})
        first3 == FirstMatch({i \in DOMAIN list : Tier3(list[i])})
    IN  IF first1 # 0 THEN list[first1]
        ELSE IF first2 # 0 THEN list[first2]
        ELSE IF first3 # 0 THEN list[first3]
        ELSE Null

pickTrack(list) ==
    LET first1 == FirstMatch({i \in DOMAIN list : Tier1(list[i])})
        first2 == FirstMatch({i \in DOMAIN list : Tier2(list[i])})
        first3 == FirstMatch({i \in DOMAIN list : Tier3(list[i])})
    IN  IF first1 # 0 THEN list[first1]
        ELSE IF first2 # 0 THEN list[first2]
        ELSE IF first3 # 0 THEN list[first3]
        ELSE IF Len(list) > 0 THEN list[1]
        ELSE Null

(***************************************************************************)
(* Caption URLs (sequences of characters) and fetchCaptions' rewriting.    *)
(***************************************************************************)
\* Whether `sub` occurs in s at (1-based) position i.
At(s, i, sub) ==
    /\ i >= 1
    /\ i + Len(sub) - 1 <= Len(s)
    /\ SubSeq(s, i, i + Len(sub) - 1) = sub

\* Where a run [^&]* starting at position i ends: the position of the next
\* "&" at or after i, or Len(s) + 1.
RunEnd(s, i) ==
    LET amps == {j \in i..Len(s) : s[j] = "&"}
    IN  IF amps = {} THEN Len(s) + 1
        ELSE CHOOSE j \in amps : \A k \in amps : j <= k

ExpEq == <<"e", "x", "p", "=">>
FmtEq == <<"f", "m", "t", "=">>
SparamsEq == <<"s", "p", "a", "r", "a", "m", "s", "=">>
CommaExp == <<",", "e", "x", "p">>
ExpComma == <<"e", "x", "p", ",">>

\* baseUrl.replace(/[&?]exp=[^&]*/g, "")
RECURSIVE StripExpFrom(_, _)
StripExpFrom(s, i) ==
    IF i > Len(s) THEN Empty
    ELSE IF s[i] \in {"&", "?"} /\ At(s, i + 1, ExpEq)
         THEN StripExpFrom(s, RunEnd(s, i + 1 + Len(ExpEq)))
         ELSE <<s[i]>> \o StripExpFrom(s, i + 1)

StripExp(s) == StripExpFrom(s, 1)

\* baseUrl.replace(/(sparams=[^&]*)(?:,exp|exp,)/g, "$1"): [^&]* is greedy, so
\* the group ends at the last place in the run where ",exp" or "exp," follows.
RECURSIVE RepairSparamsFrom(_, _)
RepairSparamsFrom(s, i) ==
    IF i > Len(s) THEN Empty
    ELSE IF At(s, i, SparamsEq)
         THEN LET first == i + Len(SparamsEq)
                  ks == {k \in first..RunEnd(s, first) :
                            At(s, k, CommaExp) \/ At(s, k, ExpComma)}
              IN  IF ks = {} THEN <<s[i]>> \o RepairSparamsFrom(s, i + 1)
                  ELSE LET k == CHOOSE x \in ks : \A y \in ks : y <= x
                       IN  SubSeq(s, i, k - 1)
                               \o RepairSparamsFrom(s, k + Len(CommaExp))
         ELSE <<s[i]>> \o RepairSparamsFrom(s, i + 1)

RepairSparams(s) == RepairSparamsFrom(s, 1)

json3 == <<"j", "s", "o", "n", "3">>
srv3 == <<"s", "r", "v", "3">>
\* (mutation: json3 is tried once more after the format-less attempt)
formatsJson3Again == <<json3, srv3, Empty, json3>>

formats == <<json3, srv3, Empty>>

\* The URL of one format attempt: fmt replaces the first fmt=... or is appended.
FormatUrl(baseUrl, fmt) ==
    IF fmt # Empty
    THEN IF IndexOf(baseUrl, FmtEq) # -1
         THEN LET p == IndexOf(baseUrl, FmtEq) + 1
              IN  SubSeq(baseUrl, 1, p - 1) \o FmtEq \o fmt
                      \o SubSeq(baseUrl, RunEnd(baseUrl, p + Len(FmtEq)),
                                Len(baseUrl))
         ELSE baseUrl \o <<"&">> \o FmtEq \o fmt
    ELSE baseUrl

\* "/t?v=1" and "/t?v=1&exp=x&fmt=srv1"
UrlPlain == <<"/", "t", "?", "v", "=", "1">>
UrlExpFmt == UrlPlain \o <<"&">> \o ExpEq \o <<"x", "&">> \o FmtEq
                 \o <<"s", "r", "v", "1">>

(***************************************************************************)
(* extractJson. A text is a sequence of runs: one of the four characters   *)
(* the scanner tells apart, or a stretch of n characters it does not       *)
(* (letters, digits, colons, commas, spaces, ...).                         *)
(***************************************************************************)
MaxScan == 2000000

Run(c, n) == [c |-> c, n |-> n]
LB == Run("{", 1)
RB == Run("}", 1)
Quote == Run("\"", 1)
Backslash == Run("\\", 1)
Other == Run("x", 1)
\* Stretches that make {"k":"..."} exactly MaxScan characters long, its
\* closing brace the last character scanned, and one character longer.
LongIn == Run("x", MaxScan - 8)
LongOut == Run("x", MaxScan - 7)

\* html.length of the first r runs.
RECURSIVE Length(_, _)
Length(html, r) == IF r = 0 THEN 0 ELSE Length(html, r - 1) + html[r].n

Min(a, b) == IF a <= b THEN a ELSE b

\* (mutation: no limit but the end of the text)
maxScanWholeText(html, startIdx) == Length(html, Len(html))

\* var maxScan = Math.min(len, startIdx + 2000000)
maxScanOf(html, startIdx) == Min(Length(html, Len(html)), startIdx + MaxScan)

NoScan ==
    [html |-> << >>, startIdx |-> 0, i |-> 0, r |-> 0, depth |-> 0,
     inStr |-> FALSE, esc |-> FALSE, jsonStr |-> Null, object |-> << >>]

\* The call extractJson(html, startIdx), startIdx being the offset of run r.
EnterExtractJson(html, r, object) ==
    [html |-> html, startIdx |-> Length(html, r - 1), i |-> Length(html, r - 1),
     r |-> r, depth |-> 0, inStr |-> FALSE, esc |-> FALSE, jsonStr |-> Null,
     object |-> object]

\* (mutation: a backslash escapes nothing)
EscapeStartsNever(c, inStr) == FALSE

\* The test `c === "\\" && inStr`.
EscapeStarts(c, inStr) == c = "\\" /\ inStr

\* The loop test `i < maxScan`.
LoopRuns(sc) == sc.i < maxScanOf(sc.html, sc.startIdx)

\* (mutation: return at any closing brace that leaves depth at or below zero)
DepthNotPositive(depth) == depth <= 0

\* The test `depth === 0` after depth--.
DepthBackToZero(depth) == depth = 0

\* The loop body on the run at position i. A stretch of n other characters
\* is n iterations that clear esc and advance i, as many as the loop test
\* allows; each of the four special characters is one iteration.
LoopBody(sc) ==
    LET run == sc.html[sc.r]
        c == run.c
        room == maxScanOf(sc.html, sc.startIdx) - sc.i
        on == [sc EXCEPT !.i = sc.i + Min(run.n, room), !.r = sc.r + 1]
    IN  IF sc.esc THEN [on EXCEPT !.esc = FALSE]
        ELSE IF EscapeStarts(c, sc.inStr) THEN [on EXCEPT !.esc = TRUE]
        ELSE IF c = "\"" THEN [on EXCEPT !.inStr = ~sc.inStr]
        ELSE IF ~sc.inStr /\ c = "{" THEN [on EXCEPT !.depth = sc.depth + 1]
        ELSE IF ~sc.inStr /\ c = "}"
             THEN IF DepthBackToZero(sc.depth - 1)
                  THEN [sc EXCEPT !.depth = sc.depth - 1,
                           !.jsonStr = [from |-> sc.startIdx, to |-> sc.i + 1]]
                  ELSE [on EXCEPT !.depth = sc.depth - 1]
        ELSE on

(***************************************************************************)
(* Upstream responses: what UrlFetchApp.fetch can hand back.               *)
(***************************************************************************)
HttpCodes == {200, 204, 403}

\* err.message of the faults the code can meet.
TransportError == <<"Address unavailable">>
SyntaxError == <<"Unexpected token < in JSON at position 0">>
TypeError == <<"Cannot read properties of null">>

OK == <<"OK">>
Statuses == {Empty, OK, <<"LOGIN_REQUIRED">>}
Reasons == {Empty, <<"Sign in to confirm your age">>}

\* An auto-generated English track with a URL and a French track without.
MainTracks == {Track(en, "asr", UrlExpFmt), Track(fr, "", Empty)}
TrackLists == SeqsUpTo(MainTracks, MaxTracks)

\* A parsed player response. captions: whether reading
\* x.captions.playerCaptionsTracklistRenderer.captionTracks throws, yields
\* undefined, or yields the list captionTracks.
NoPlayer ==
    [status |-> Empty, reason |-> Empty, captions |-> "throws",
     captionTracks |-> << >>]
SomePlayer ==
    [status |-> OK, reason |-> Empty, captions |-> "list",
     captionTracks |-> <<Track(en, "asr", UrlExpFmt)>>]
Players ==
    {[SomePlayer EXCEPT !.captionTracks = l] : l \in TrackLists}
    \cup {[SomePlayer EXCEPT !.status = Empty]}
    \cup {[NoPlayer EXCEPT !.status = st, !.reason = rs] :
            st \in Statuses, rs \in Reasons}
    \cup {[NoPlayer EXCEPT !.status = OK, !.captions = "undefined"]}

\* A response to the watch-page GET or to the player POST.
\*   fault      fetch threw instead of returning
\*   code       getResponseCode()
\*   signIn     the body contains "Sign in to confirm"
\*   notBot     the body contains "confirm you're not a bot"
\*   idx        html.indexOf("ytInitialPlayerResponse")
\*   jsonStart  html.indexOf("{", idx)
\*   json       "none": extractJson found no balanced object; "garbage": the
\*              text does not parse; "null": it parses to null; "object": it
\*              parses to `player`
Resp(fault, code, signIn, notBot, idx, jsonStart, json, player) ==
    [fault |-> fault, code |-> code, signIn |-> signIn, notBot |-> notBot,
     idx |-> idx, jsonStart |-> jsonStart, json |-> json, player |-> player]

FetchFault == Resp(TRUE, 0, FALSE, FALSE, -1, -1, "none", NoPlayer)
HttpError(c) == Resp(FALSE, c, FALSE, FALSE, -1, -1, "none", NoPlayer)

JsonStartWindow == 200

PageResponses ==
    {FetchFault}
    \cup {HttpError(c) : c \in HttpCodes \ {200}}
    \cup {Resp(FALSE, 403, TRUE, FALSE, -1, -1, "none", NoPlayer)}
    \cup {Resp(FALSE, 200, FALSE, FALSE, -1, -1, "none", NoPlayer)}
    \cup {Resp(FALSE, 200, FALSE, FALSE, 10, j, "none", NoPlayer) :
            j \in {-1, 10 + JsonStartWindow + 1}}
    \cup {Resp(FALSE, 200, FALSE, FALSE, 10, j, js, NoPlayer) :
            j \in {35, 10 + JsonStartWindow},
            js \in {"none", "garbage"}}
    \cup {Resp(FALSE, 200, FALSE, FALSE, 10, 35, "object", p) :
            p \in Players}
    \cup {Resp(FALSE, 200, a, b, -1, -1, "none", NoPlayer) :
            a \in BOOLEAN, b \in BOOLEAN}
    \cup {Resp(FALSE, 200, a, b, 10, 35, "object", SomePlayer) :
            a \in BOOLEAN, b \in BOOLEAN}

ApiResponses ==
    {FetchFault}
    \cup {HttpError(c) : c \in HttpCodes \ {200}}
    \cup {Resp(FALSE, 200, FALSE, FALSE, -1, -1, js, NoPlayer) :
            js \in {"garbage", "null"}}
    \cup {Resp(FALSE, 200, FALSE, FALSE, -1, -1, "object", p) : p \in Players}

\* Caption bodies. JSON.parse is modelled on exactly these texts.
EventsBody == <<"{\"events\":[{\"segs\":[{\"utf8\":\"hi\"}]}]}">>
NoEventsBody == <<"{\"events\":[]}">>
EmptyObjectBody == <<"{}">>
NullBody == <<"null">>
XmlBody == <<"<transcript><text>hi</text></transcript>">>
BlankBody == <<" ", "\n">>
Contents ==
    {Empty, BlankBody, EventsBody, NoEventsBody, EmptyObjectBody, NullBody,
     XmlBody}

\* JSON.parse(content): threw (ok = FALSE), null, or an object whose events
\* field is absent, an empty array or a non-empty array.
JsonParse(content) ==
    CASE content = EventsBody -> [ok |-> TRUE, null |-> FALSE, events |-> "some"]
      [] content = NoEventsBody -> [ok |-> TRUE, null |-> FALSE, events |-> "empty"]
      [] content = EmptyObjectBody -> [ok |-> TRUE, null |-> FALSE, events |-> "absent"]
      [] content = NullBody -> [ok |-> TRUE, null |-> TRUE, events |-> "absent"]
      [] OTHER -> [ok |-> FALSE, null |-> FALSE, events |-> "absent"]

IsSpace(c) == c \in {" ", "\n", "\t"}

\* String.prototype.trim()
Trim(s) ==
    LET ink == {i \in DOMAIN s : ~IsSpace(s[i])}
    IN  IF ink = {} THEN Empty
        ELSE SubSeq(s, CHOOSE i \in ink : \A j \in ink : i <= j,
                       CHOOSE i \in ink : \A j \in ink : j <= i)

CaptionResp(fault, code, content) ==
    [fault |-> fault, code |-> code, content |-> content]
CaptionResponses ==
    {CaptionResp(TRUE, 0, Empty)}
    \cup {CaptionResp(FALSE, 403, XmlBody)}
    \cup {CaptionResp(FALSE, 200, c) : c \in Contents}

NoReply == [none |-> TRUE]

(***************************************************************************)
(* The strategies, as functions of the response they receive.              *)
(* A try block ends by throwing, by returning a failure, or by going on to *)
(* the caption fetch with the track list it read.                          *)
(***************************************************************************)
Throw(message) == [kind |-> "throw", error |-> message, tracks |-> << >>]
ReturnFail(error) == [kind |-> "fail", error |-> error, tracks |-> << >>]
GoOn(list) == [kind |-> "tracks", error |-> Empty, tracks |-> list]

Failure(error) == [success |-> FALSE, error |-> error]
Success(data) == [success |-> TRUE, data |-> data]

\* tracks = [] ; try { tracks = x.captions...captionTracks } catch {} ;
\* a list that is undefined or empty fails the `!tracks || tracks.length === 0`
\* test that follows, like the [] left by a throw.
CaptionTracks(player) ==
    IF player.captions = "list" THEN player.captionTracks ELSE << >>

\* (mutation: only the first phrase is looked for)
BotChallengeSignInOnly(resp) == resp.signIn

\* html.indexOf("Sign in to confirm") !== -1 ||
\* html.indexOf("confirm you're not a bot") !== -1
BotChallenge(resp) == resp.signIn \/ resp.notBot

\* (mutation: every strategy insists on "OK")
PlayabilityFailsUnlessOk(name, ps) == ps.status # OK

\* The playability test of each strategy on ps = x.playabilityStatus || {}:
\* tryWatchPage `ps.status && ps.status !== "OK"`, the others
\* `ps.status !== "OK"`.
PlayabilityFails(name, ps) ==
    IF name = "tryWatchPage" THEN ps.status # Empty /\ ps.status # OK
    ELSE ps.status # OK

\* (mutation: an empty track list is reported as a failed extraction)
NoCaptionTracksAsExtraction(name) == <<"Could not extract player JSON">>

\* The error for an absent or empty track list.
NoCaptionTracks(name) ==
    IF name = "tryWatchPage" THEN <<"No caption tracks in player response">>
    ELSE <<"No caption tracks">>

\* The try block of tryWatchPage, from the response on.
WatchPageTry(resp) ==
    IF resp.fault THEN Throw(TransportError)
    ELSE IF resp.code # 200 THEN ReturnFail(<<"HTTP ", ToString(resp.code)>>)
    ELSE IF BotChallenge(resp)
         THEN ReturnFail(<<"Bot detection triggered">>)
    ELSE IF resp.idx = -1
         THEN ReturnFail(<<"ytInitialPlayerResponse not found in page">>)
    ELSE IF resp.jsonStart = -1 \/ resp.jsonStart > resp.idx + JsonStartWindow
         THEN ReturnFail(<<"Could not locate JSON start">>)
    ELSE IF resp.json = "none"
         THEN ReturnFail(<<"Could not extract player JSON">>)
    ELSE IF resp.json = "garbage" THEN Throw(SyntaxError)
    ELSE IF PlayabilityFails("tryWatchPage", resp.player)
         THEN ReturnFail(OrElse(resp.player.reason, resp.player.status))
    ELSE IF CaptionTracks(resp.player) = << >>
         THEN ReturnFail(NoCaptionTracks("tryWatchPage"))
    ELSE GoOn(CaptionTracks(resp.player))

\* The try block of tryInnertube, from the response on.
InnertubeTry(resp) ==
    IF resp.fault THEN Throw(TransportError)
    ELSE IF resp.code # 200 THEN ReturnFail(<<"HTTP ", ToString(resp.code)>>)
    ELSE IF resp.json = "garbage" THEN Throw(SyntaxError)
    ELSE IF resp.json = "null" THEN Throw(TypeError)
    ELSE IF PlayabilityFails("tryInnertube", resp.player)
         THEN ReturnFail(OrElse(OrElse(resp.player.reason, resp.player.status),
                                <<"Not OK">>))
    ELSE IF CaptionTracks(resp.player) = << >>
         THEN ReturnFail(NoCaptionTracks("tryInnertube"))
    ELSE GoOn(CaptionTracks(resp.player))

\* tryClient (it has no try block), from the response on; its failures carry
\* no error field.
ClientTry(resp) ==
    IF resp.fault THEN Throw(TransportError)
    ELSE IF resp.code # 200 THEN ReturnFail(Empty)
    ELSE IF resp.json = "garbage" THEN Throw(SyntaxError)
    ELSE IF resp.json = "null" THEN Throw(TypeError)
    ELSE IF PlayabilityFails("tryClient", resp.player) THEN ReturnFail(Empty)
    ELSE IF CaptionTracks(resp.player) = << >> THEN ReturnFail(Empty)
    ELSE GoOn(CaptionTracks(resp.player))

\* fetchCaptions' baseUrl after the two replace calls.
BaseUrl(t) == RepairSparams(StripExp(t.baseUrl))

\* (mutation: the response code is not looked at)
CaptionAcceptedAnyCode(fmt, resp) ==
    IF resp.fault THEN FALSE
    ELSE IF resp.content = Empty \/ Len(Trim(resp.content)) = 0 THEN FALSE
    ELSE IF fmt = json3
         THEN IF ~JsonParse(resp.content).ok THEN FALSE
              ELSE IF JsonParse(resp.content).null THEN FALSE
              ELSE JsonParse(resp.content).events = "some"
    ELSE TRUE

\* One pass of fetchCaptions' loop body from the response on: TRUE when it
\* reaches the return, FALSE when it ends in `continue` or in the catch.
CaptionAccepted(fmt, resp) ==
    IF resp.fault THEN FALSE
    ELSE IF resp.code # 200 THEN FALSE
    ELSE IF resp.content = Empty \/ Len(Trim(resp.content)) = 0 THEN FALSE
    ELSE IF fmt = json3
         THEN IF ~JsonParse(resp.content).ok THEN FALSE
              ELSE IF JsonParse(resp.content).null THEN FALSE
              ELSE JsonParse(resp.content).events = "some"
    ELSE TRUE

Default == <<"d", "e", "f", "a", "u", "l", "t">>

\* The playabilityStatus a strategy read at `ps = player.playabilityStatus`
\* when it named a status other than "OK"; null when the status was "OK" or
\* absent, or the strategy returned or threw before that line.
PlayabilityRead(name, resp) ==
    IF /\ ~resp.fault
       /\ resp.code = 200
       /\ resp.json = "object"
       /\ name = "tryWatchPage" =>
            /\ ~resp.signIn /\ ~resp.notBot
            /\ resp.idx # -1
            /\ resp.jsonStart # -1
            /\ resp.jsonStart <= resp.idx + JsonStartWindow
       /\ resp.player.status \notin {Empty, OK}
    THEN [status |-> resp.player.status, reason |-> resp.player.reason]
    ELSE Null

\* (mutation: the payload describes the first track of the list)
PayloadOfFirstTrack(t, content, format, source, list) ==
    [track |-> [languageCode |-> OrElse(list[1].languageCode, Empty),
                name |-> list[1].name, kind |-> list[1].kind],
     content |-> content, format |-> format, client |-> source,
     trackCount |-> Len(list)]

\* The data object of a successful outcome.
Payload(t, content, format, source, list) ==
    [track |-> [languageCode |-> OrElse(t.languageCode, Empty),
                name |-> t.name, kind |-> t.kind],
     content |-> content, format |-> format, client |-> source,
     trackCount |-> Len(list)]

(***************************************************************************)
(* doPost: the strategies in order.                                        *)
(***************************************************************************)
Scripts == {"cookies", "basic", "clients"}

CLIENTS ==
    << [name |-> <<"ANDROID">>, version |-> "20.10.38"],
       [name |-> <<"ANDROID_VR">>, version |-> "1.57.29"],
       [name |-> <<"IOS">>, version |-> "19.45.4"] >>

ConsentCookies ==
    <<"SOCS=CAISNQgDEitib3FfaWRlbnRpdHlmcm9udGVuZHVpc2VydmVyXzIwMjMwODE1LjA3X3AxGgJlbiACGgYIgJnOlwY; CONSENT=PENDING+987">>

\* (mutation: the caller's cookies replace the consent cookies)
CookieHeaderCredentialsOnly(c) == IF c # Empty THEN c ELSE ConsentCookies

\* cookieStr of tryWatchPage and tryInnertube.
CookieHeader(c) == IF c # Empty THEN c \o <<"; ">> \o ConsentCookies
                   ELSE ConsentCookies

\* The n-th call doPost makes: which function, with which cookies or client.
StrategyCall(s, n, c) ==
    CASE s = "cookies" /\ n = 1 ->
            [name |-> "tryWatchPage", cookies |-> c, client |-> Empty]
      [] s = "cookies" /\ n = 2 ->
            [name |-> "tryInnertube", cookies |-> c, client |-> Empty]
      [] s = "cookies" /\ n = 3 ->
            [name |-> "tryWatchPage", cookies |-> Empty, client |-> Empty]
      [] s = "basic" /\ n = 1 ->
            [name |-> "tryWatchPage", cookies |-> Empty, client |-> Empty]
      [] s = "basic" /\ n = 2 ->
            [name |-> "tryInnertube", cookies |-> Empty, client |-> Empty]
      [] s = "clients" ->
            [name |-> "tryClient", cookies |-> Empty, client |-> CLIENTS[n].name]

\* (mutation: the cookie-free retry runs even when there were no cookies)
HasNextAlwaysRetry(s, n, c) ==
    CASE s = "cookies" -> n <= 2
      [] s = "basic" -> n = 1
      [] s = "clients" -> n < 3

\* Whether doPost calls another strategy after the n-th one failed.
HasNext(s, n, c) ==
    CASE s = "cookies" -> n = 1 \/ (n = 2 /\ c # Empty)
      [] s = "basic" -> n = 1
      [] s = "clients" -> n < Len(CLIENTS)

\* The request a strategy opens with; `by` is the position of the call in
\* `invoked`, `fmt` the format asked of a caption URL.
FirstRequest(call, vid, by) ==
    CASE call.name = "tryWatchPage" ->
            [kind |-> "watch", by |-> by,
             url |-> <<"https://www.youtube.com/watch?v=">> \o vid \o <<"&hl=en">>,
             cookie |-> CookieHeader(call.cookies), client |-> Empty,
             fmt |-> Empty]
      [] call.name = "tryInnertube" ->
            [kind |-> "innertube", by |-> by,
             url |-> <<"https://www.youtube.com/youtubei/v1/player">>,
             cookie |-> CookieHeader(call.cookies), client |-> <<"WEB">>,
             fmt |-> Empty]
      [] call.name = "tryClient" ->
            [kind |-> "client", by |-> by,
             url |-> <<"https://www.googleapis.com/youtubei/v1/player">>,
             cookie |-> Empty, client |-> call.client, fmt |-> Empty]

CaptionRequest(url, fmt, by) ==
    [kind |-> "caption", by |-> by, url |-> url, cookie |-> Empty,
     client |-> Empty, fmt |-> fmt]

PcOf(call) ==
    CASE call.name = "tryWatchPage" -> "watch"
      [] call.name = "tryInnertube" -> "innertube"
      [] call.name = "tryClient" -> "client"

\* The `source` argument given to fetchCaptions.
Source(call) ==
    IF call.name = "tryWatchPage" THEN <<"watch-page">> ELSE <<"innertube-WEB">>

\* (mutation: the TIP is appended whatever the cookies)
AggregateErrorAlwaysTip(s, rs, c) ==
    IF s = "clients" THEN <<"No captions found for this video">>
    ELSE <<"No captions found for this video.">>
         \o (IF rs[1].error # Empty
             THEN <<" Watch page: ">> \o rs[1].error \o <<".">> ELSE Empty)
         \o (IF rs[2].error # Empty
             THEN <<" Innertube: ">> \o rs[2].error \o <<".">> ELSE Empty)
         \o (IF s = "cookies"
             THEN <<" TIP: Add YT_COOKIES to Script Properties for reliable access.">>
             ELSE Empty)

\* errorMsg of doPost once every strategy has failed; rs[1] is `result`,
\* rs[2] is `result2`.
AggregateError(s, rs, c) ==
    IF s = "clients" THEN <<"No captions found for this video">>
    ELSE <<"No captions found for this video.">>
         \o (IF rs[1].error # Empty
             THEN <<" Watch page: ">> \o rs[1].error \o <<".">> ELSE Empty)
         \o (IF rs[2].error # Empty
             THEN <<" Innertube: ">> \o rs[2].error \o <<".">> ELSE Empty)
         \o (IF s = "cookies" /\ c = Empty
             THEN <<" TIP: Add YT_COOKIES to Script Properties for reliable access.">>
             ELSE Empty)

Respond(obj) == pc' = "done" /\ response' = obj

\* doPost calls its n-th strategy, which issues its first request.
Invoke(n, vid, c, calls, reqs) ==
    /\ strategy' = n
    /\ invoked' = Append(calls, StrategyCall(script, n, c))
    /\ requests' = Append(reqs, FirstRequest(StrategyCall(script, n, c), vid,
                                             Len(calls) + 1))
    /\ pc' = PcOf(StrategyCall(script, n, c))
    /\ response' = NoReply

\* (mutation: doPost looks at `success` only after the last strategy)
StrategyReturnsKeepsGoing(o) ==
    /\ results' = Append(results, o)
    /\ tracks' = << >>
    /\ track' = Null
    /\ f' = 0
    /\ IF HasNext(script, strategy, cookies)
       THEN Invoke(strategy + 1, videoId, cookies, invoked, requests)
       ELSE /\ UNCHANGED <<strategy, invoked, requests>>
            /\ IF o.success THEN Respond(o.data)
               ELSE Respond([error |->
                        AggregateError(script, Append(results, o), cookies)])

\* The running strategy returns outcome o to doPost, which returns its data,
\* calls the next strategy or returns the aggregate error.
StrategyReturns(o) ==
    /\ results' = Append(results, o)
    /\ tracks' = << >>
    /\ track' = Null
    /\ f' = 0
    /\ IF o.success
       THEN Respond(o.data) /\ UNCHANGED <<strategy, invoked, requests>>
       ELSE IF HasNext(script, strategy, cookies)
            THEN Invoke(strategy + 1, videoId, cookies, invoked, requests)
            ELSE /\ Respond([error |->
                        AggregateError(script, Append(results, o), cookies)])
                 /\ UNCHANGED <<strategy, invoked, requests>>

\* A fault leaves the running strategy and lands in doPost's catch.
Escapes(message) ==
    /\ Respond([error |-> IF script = "clients" THEN message
                          ELSE <<"Script error: ">> \o message])
    /\ tracks' = << >>
    /\ track' = Null
    /\ f' = 0
    /\ UNCHANGED <<results, strategy, invoked, requests>>

\* fetchCaptions up to its first fetch (tryClient does the same inline).
EnterFetchCaptions(list) ==
    IF pickTrack(list) = Null \/ pickTrack(list).baseUrl = Empty
    THEN StrategyReturns(Failure(IF script = "clients" THEN Empty
                                 ELSE <<"No suitable track with URL">>))
    ELSE /\ tracks' = list
         /\ track' = pickTrack(list)
         /\ UNCHANGED <<results, strategy, invoked, response>>
         /\ IF script = "clients"
            THEN /\ f' = 0
                 /\ pc' = "clientCaption"
                 /\ requests' = Append(requests,
                        CaptionRequest(pickTrack(list).baseUrl
                                           \o <<"&">> \o FmtEq \o json3,
                                       json3, Len(invoked)))
            ELSE /\ f' = 1
                 /\ pc' = "caption"
                 /\ requests' = Append(requests,
                        CaptionRequest(FormatUrl(BaseUrl(pickTrack(list)),
                                                 formats[1]),
                                       formats[1], Len(invoked)))

NoOther == [none |-> TRUE]
NoWorld == [none |-> TRUE]

\* (mutation: doPost saves the merged cookies as the YT_COOKIES property)
ScriptPropertiesSaved(p, c) == c

\* The Script Properties after doPost has run with merged cookies c: doPost
\* only reads them (getProperty in getYTCookies), nothing sets a property.
ScriptProperties(p, c) == p

Bodies ==
    {[valid |-> FALSE, videoId |-> Empty, cookies |-> Empty]}
    \cup {[valid |-> TRUE, videoId |-> v, cookies |-> c] :
            v \in {Empty, <<"dQw4w9WgXcQ">>}, c \in {Empty, <<"HSID=2">>}}

\* getYTCookies(): the stored property, "" when it is unset or the store throws.
getYTCookies(storeFault) == IF storeFault THEN Empty ELSE OrElse(props, Empty)

\* doPost's `cookies` after merging the stored and the posted ones.
MergedCookies(stored, extra) ==
    IF extra # Empty
    THEN IF stored # Empty THEN stored \o <<"; ">> \o extra ELSE extra
    ELSE stored

Init ==
    /\ script \in Scripts
    /\ props \in {Empty, <<"SID=1">>}
    /\ pc = "idle"
    /\ cookies = Empty
    /\ strategy = 0
    /\ invoked = << >>
    /\ results = << >>
    /\ tracks = << >>
    /\ track = Null
    /\ f = 0
    /\ videoId = Empty
    /\ requests = << >>
    /\ reply = NoReply
    /\ answered = 0
    /\ response = NoReply
    /\ scan = NoScan
    /\ obtained = << >>
    /\ me = 1
    /\ other = NoOther
    /\ world = NoWorld

\* A POST arrives: doPost runs up to the first strategy's fetch.
DoPostGets(bodies, storeFaults) ==
    /\ pc = "idle"
    /\ \E body \in bodies, storeFault \in storeFaults :
        /\ reply' = NoReply
        /\ answered' = 0
        /\ results' = << >>
        /\ tracks' = << >>
        /\ track' = Null
        /\ f' = 0
        /\ obtained' = << >>
        /\ UNCHANGED <<me, other, world, scan, script>>
        /\ IF ~body.valid \/ body.videoId = Empty
           THEN /\ Respond([error |->
                      IF body.valid THEN <<"Missing videoId">>
                      ELSE IF script = "clients" THEN SyntaxError
                      ELSE <<"Script error: ">> \o SyntaxError])
                /\ videoId' = body.videoId
                /\ cookies' = Empty
                /\ props' = props
                /\ strategy' = 0
                /\ invoked' = << >>
                /\ requests' = << >>
           ELSE /\ videoId' = body.videoId
                /\ cookies' = IF script = "cookies"
                              THEN MergedCookies(getYTCookies(storeFault),
                                                 body.cookies)
                              ELSE Empty
                /\ props' = ScriptProperties(props, cookies')
                /\ Invoke(1, body.videoId, cookies', << >>, << >>)

\* tryWatchPage receives the watch page.
WatchPageGets(responses) ==
    /\ pc = "watch"
    /\ \E resp \in responses :
        /\ reply' = resp
        /\ answered' = Len(requests)
        /\ obtained' = Append(obtained, PlayabilityRead("tryWatchPage", resp))
        /\ UNCHANGED <<me, other, world, scan, script, props, cookies, videoId>>
        /\ IF WatchPageTry(resp).kind = "tracks"
           THEN EnterFetchCaptions(WatchPageTry(resp).tracks)
           ELSE StrategyReturns(Failure(WatchPageTry(resp).error))

\* tryInnertube receives the player response.
InnertubeGets(responses) ==
    /\ pc = "innertube"
    /\ \E resp \in responses :
        /\ reply' = resp
        /\ answered' = Len(requests)
        /\ obtained' = Append(obtained, PlayabilityRead("tryInnertube", resp))
        /\ UNCHANGED <<me, other, world, scan, script, props, cookies, videoId>>
        /\ IF InnertubeTry(resp).kind = "tracks"
           THEN EnterFetchCaptions(InnertubeTry(resp).tracks)
           ELSE StrategyReturns(Failure(InnertubeTry(resp).error))

\* fetchCaptions receives the response to the attempt for formats[f].
CaptionGets(responses) ==
    /\ pc = "caption"
    /\ \E resp \in responses :
        /\ reply' = resp
        /\ answered' = Len(requests)
        /\ UNCHANGED <<me, other, world, scan, script, props, cookies, videoId, obtained>>
        /\ IF CaptionAccepted(formats[f], resp)
           THEN StrategyReturns(Success(
                    Payload(track, resp.content, OrElse(formats[f], Default),
                            Source(invoked[Len(invoked)]), tracks)))
           ELSE IF f < Len(formats)
                THEN /\ f' = f + 1
                     /\ requests' = Append(requests,
                            CaptionRequest(FormatUrl(BaseUrl(track), formats[f + 1]),
                                           formats[f + 1], Len(invoked)))
                     /\ UNCHANGED <<pc, results, strategy, invoked, tracks,
                                    track, response>>
                ELSE StrategyReturns(
                         Failure(<<"All caption format fetches failed">>))

\* tryClient receives the player response.
ClientGets(responses) ==
    /\ pc = "client"
    /\ \E resp \in responses :
        /\ reply' = resp
        /\ answered' = Len(requests)
        /\ obtained' = Append(obtained, PlayabilityRead("tryClient", resp))
        /\ UNCHANGED <<me, other, world, scan, script, props, cookies, videoId>>
        /\ CASE ClientTry(resp).kind = "tracks" ->
                    EnterFetchCaptions(ClientTry(resp).tracks)
             [] ClientTry(resp).kind = "fail" ->
                    StrategyReturns(Failure(ClientTry(resp).error))
             [] ClientTry(resp).kind = "throw" ->
                    Escapes(ClientTry(resp).error)

\* tryClient receives the response to its one caption fetch.
ClientCaptionGets(responses) ==
    /\ pc = "clientCaption"
    /\ \E resp \in responses :
        /\ reply' = resp
        /\ answered' = Len(requests)
        /\ UNCHANGED <<me, other, world, scan, script, props, cookies, videoId, obtained>>
        /\ IF resp.fault THEN Escapes(TransportError)
           ELSE IF resp.code # 200 THEN StrategyReturns(Failure(Empty))
           ELSE IF resp.content = Empty \/ Len(Trim(resp.content)) = 0
                THEN StrategyReturns(Failure(Empty))
           ELSE StrategyReturns(Success(
                    Payload(track, resp.content, json3,
                            invoked[Len(invoked)].client, tracks)))

\* One execution, any post and any upstream response.
DoPost == DoPostGets(Bodies, BOOLEAN)
WatchPageResponse == WatchPageGets(PageResponses)
InnertubeResponse == InnertubeGets(ApiResponses)
CaptionResponse == CaptionGets(CaptionResponses)
ClientResponse == ClientGets(ApiResponses)
ClientCaptionResponse == ClientCaptionGets(CaptionResponses)

Next ==
    \/ DoPost
    \/ WatchPageResponse
    \/ InnertubeResponse
    \/ CaptionResponse
    \/ ClientResponse
    \/ ClientCaptionResponse

Spec == Init /\ [][Next]_vars

(***************************************************************************)
(* pickTrack on its own: one call on any list of up to MaxPickLen tracks.  *)
(***************************************************************************)
PickTracks == {Track(lc, k, UrlPlain) : lc \in LanguageCodes, k \in Kinds}
PickInputs == SeqsUpTo(PickTracks, MaxPickLen)

InitPick ==
    /\ script \in Scripts
    /\ props = Empty
    /\ pc = "pick"
    /\ cookies = Empty
    /\ strategy = 0
    /\ invoked = << >>
    /\ results = << >>
    /\ tracks = << >>
    /\ track = Null
    /\ f = 0
    /\ videoId = Empty
    /\ requests = << >>
    /\ reply = NoReply
    /\ answered = 0
    /\ response = NoReply
    /\ scan = NoScan
    /\ obtained = << >>
    /\ me = 1
    /\ other = NoOther
    /\ world = NoWorld

PickTrackCall ==
    /\ pc = "pick"
    /\ \E list \in PickInputs :
        /\ tracks' = list
        /\ track' = pickTrack(list)
    /\ pc' = "picked"
    /\ UNCHANGED <<me, other, world, scan, script, props, cookies, strategy, invoked, results,
                   f, videoId, requests, reply, answered, response, obtained>>

NextPick == PickTrackCall

SpecPick == InitPick /\ [][NextPick]_vars

(***************************************************************************)
(* Two executions of doPost at once. Apps Script gives every execution its *)
(* own globals and locals, so the variables of doPost exist twice: those   *)
(* of the execution that runs now, and `other`. Script Properties (props)  *)
(* and the deployed script are the same for both.                          *)
(***************************************************************************)
Locals ==
    [pc |-> pc, cookies |-> cookies, strategy |-> strategy,
     invoked |-> invoked, results |-> results, tracks |-> tracks,
     track |-> track, f |-> f, videoId |-> videoId, requests |-> requests,
     reply |-> reply, answered |-> answered, response |-> response,
     obtained |-> obtained]

IdleLocals ==
    [pc |-> "idle", cookies |-> Empty, strategy |-> 0, invoked |-> << >>,
     results |-> << >>, tracks |-> << >>, track |-> Null, f |-> 0,
     videoId |-> Empty, requests |-> << >>, reply |-> NoReply,
     answered |-> 0, response |-> NoReply, obtained |-> << >>]

Post(c) == [valid |-> TRUE, videoId |-> <<"dQw4w9WgXcQ">>, cookies |-> c]
PlayerPage == Resp(FALSE, 200, FALSE, FALSE, 10, 35, "object", SomePlayer)
PlayerApi == Resp(FALSE, 200, FALSE, FALSE, -1, -1, "object", SomePlayer)
UnplayableApi ==
    Resp(FALSE, 200, FALSE, FALSE, -1, -1, "object",
         [NoPlayer EXCEPT !.status = <<"LOGIN_REQUIRED">>,
                          !.reason = <<"Sign in to confirm your age">>])

\* An upstream that answers a request by what it asks, and the two posts.
Worlds ==
    [props : {Empty, <<"SID=1">>},
     post : {<<Post(c), Post(Empty)>> : c \in {Empty, <<"HSID=2">>}},
     watchWith : {HttpError(403), PlayerPage},
     watchWithout :
        {Resp(FALSE, 200, FALSE, FALSE, -1, -1, "none", NoPlayer), PlayerPage},
     api : {FetchFault, UnplayableApi, PlayerApi},
     json3 : {CaptionResp(FALSE, 403, XmlBody), CaptionResp(FALSE, 200, EventsBody)},
     srv3 : {CaptionResp(TRUE, 0, Empty), CaptionResp(FALSE, 200, XmlBody)},
     plain : {CaptionResp(FALSE, 200, BlankBody)}]

Upstream(w, req) ==
    CASE req.kind = "watch" ->
            IF req.cookie = ConsentCookies THEN w.watchWithout ELSE w.watchWith
      [] req.kind \in {"innertube", "client"} -> w.api
      [] req.kind = "caption" ->
            IF req.fmt = json3 THEN w.json3
            ELSE IF req.fmt = srv3 THEN w.srv3 ELSE w.plain

InitTwo ==
    /\ script \in Scripts
    /\ world \in Worlds
    /\ props = world.props
    /\ pc = "idle"
    /\ cookies = Empty
    /\ strategy = 0
    /\ invoked = << >>
    /\ results = << >>
    /\ tracks = << >>
    /\ track = Null
    /\ f = 0
    /\ videoId = Empty
    /\ requests = << >>
    /\ reply = NoReply
    /\ answered = 0
    /\ response = NoReply
    /\ scan = NoScan
    /\ obtained = << >>
    /\ me = 1
    /\ other = IdleLocals

\* The platform lets the other execution run: every step of doPost between
\* two fetches is a place where this may happen.
Switch ==
    /\ other # NoOther
    /\ me' = 3 - me
    /\ other' = Locals
    /\ pc' = other.pc
    /\ cookies' = other.cookies
    /\ strategy' = other.strategy
    /\ invoked' = other.invoked
    /\ results' = other.results
    /\ tracks' = other.tracks
    /\ track' = other.track
    /\ f' = other.f
    /\ videoId' = other.videoId
    /\ requests' = other.requests
    /\ reply' = other.reply
    /\ answered' = other.answered
    /\ response' = other.response
    /\ obtained' = other.obtained
    /\ UNCHANGED <<script, props, world, scan>>

PostArrives == DoPostGets({world.post[me]}, {FALSE})
WatchPageArrives == WatchPageGets({Upstream(world, requests[Len(requests)])})
InnertubeArrives == InnertubeGets({Upstream(world, requests[Len(requests)])})
CaptionArrives == CaptionGets({Upstream(world, requests[Len(requests)])})
ClientArrives == ClientGets({Upstream(world, requests[Len(requests)])})
ClientCaptionArrives ==
    ClientCaptionGets({Upstream(world, requests[Len(requests)])})

NextTwo ==
    \/ PostArrives
    \/ WatchPageArrives
    \/ InnertubeArrives
    \/ CaptionArrives
    \/ ClientArrives
    \/ ClientCaptionArrives
    \/ Switch

SpecTwo == InitTwo /\ [][NextTwo]_vars

(***************************************************************************)
(* extractJson on its own: SpecScan calls it on a text and runs its loop.  *)
(***************************************************************************)
\* What a JSON string may hold between its quotes: other characters, braces,
\* an escaped quote, an escaped backslash, another escape such as \n, and
\* long stretches.
StringPieces ==
    {<<Other>>, <<LB>>, <<RB>>, <<Backslash, Quote>>, <<Backslash, Backslash>>,
     <<Backslash, Other>>, <<LongIn>>, <<LongOut>>}

RECURSIVE Flatten(_)
Flatten(pieces) ==
    IF pieces = << >> THEN << >> ELSE Head(pieces) \o Flatten(Tail(pieces))

StringBodies(n) == {Flatten(ps) : ps \in SeqsUpTo(StringPieces, n)}
JsonString(body) == <<Quote>> \o body \o <<Quote>>
\* "k":
Key == JsonString(<<Other>>) \o <<Other>>

\* {} and {"k":"..."}
FlatObjects(n) ==
    {<<LB, RB>>}
    \cup {<<LB>> \o Key \o JsonString(b) \o <<RB>> : b \in StringBodies(n)}
\* {"k":{...}}
NestedObjects == {<<LB>> \o Key \o o \o <<RB>> : o \in FlatObjects(1)}
JsonObjects == FlatObjects(MaxPieces) \cup NestedObjects

Prefixes == {<< >>, <<Quote, LB>>}
Suffixes == {<< >>, <<RB>>, <<Quote, LB>>}
RunKinds == {LB, RB, Quote, Backslash, Other, LongIn, LongOut}
\* The kinds of character the scanner tells apart outside a string: either
\* brace, a quote, and anything else.
PlainKinds == {LB, RB, Quote, Other}

InitScan ==
    /\ script \in {"cookies", "basic"}
    /\ props = Empty
    /\ pc = "scan"
    /\ cookies = Empty
    /\ strategy = 0
    /\ invoked = << >>
    /\ results = << >>
    /\ tracks = << >>
    /\ track = Null
    /\ f = 0
    /\ videoId = Empty
    /\ requests = << >>
    /\ reply = NoReply
    /\ answered = 0
    /\ response = NoReply
    /\ obtained = << >>
    /\ me = 1
    /\ other = NoOther
    /\ world = NoWorld
    /\ \/ \E pre \in Prefixes, o \in JsonObjects, post \in Suffixes :
            scan = EnterExtractJson(pre \o o \o post, Len(pre) + 1, o)
       \/ \E pre \in Prefixes, tail \in SeqsUpTo(RunKinds, MaxTail) :
            scan = EnterExtractJson(pre \o <<LB>> \o tail, Len(pre) + 1, << >>)
       \/ \E pre \in Prefixes, first \in PlainKinds,
             tail \in SeqsUpTo(PlainKinds, MaxTail) :
            scan = EnterExtractJson(pre \o <<first>> \o tail, Len(pre) + 1,
                                    << >>)

\* One pass of the while loop (a whole stretch of other characters at once).
ExtractJsonLoop ==
    /\ pc = "scan"
    /\ LoopRuns(scan)
    /\ scan' = LoopBody(scan)
    /\ pc' = IF LoopBody(scan).jsonStr # Null THEN "scanned" ELSE "scan"
    /\ UNCHANGED <<me, other, world, script, props, cookies, strategy, invoked,
                   results, tracks, track, f, videoId, requests, reply,
                   answered, response, obtained>>

\* The loop test fails: return null.
ExtractJsonNull ==
    /\ pc = "scan"
    /\ ~LoopRuns(scan)
    /\ pc' = "scanned"
    /\ UNCHANGED <<me, other, world, scan, script, props, cookies, strategy, invoked, results,
                   tracks, track, f, videoId, requests, reply, answered,
                   response, obtained>>

NextScan == ExtractJsonLoop \/ ExtractJsonNull

SpecScan == InitScan /\ [][NextScan]_vars /\ WF_vars(NextScan)

(***************************************************************************)
(* fetchCaptions' URLs on their own: SpecUrl takes a track whose baseUrl   *)
(* is a path and a query, and builds the URL of each format attempt.       *)
(***************************************************************************)
RECURSIVE Join(_, _)
Join(strs, sep) ==
    IF strs = << >> THEN Empty
    ELSE IF Len(strs) = 1 THEN strs[1]
    ELSE strs[1] \o sep \o Join(Tail(strs), sep)

\* v=1, exp=x, fmt=srv1 and expire=9
OtherParams ==
    {<<"v", "=", "1">>, ExpEq \o <<"x">>, FmtEq \o <<"s", "r", "v", "1">>,
     <<"e", "x", "p", "i", "r", "e", "=", "9">>}

ip == <<"i", "p">>
exp == <<"e", "x", "p">>
expire == <<"e", "x", "p", "i", "r", "e">>
\* sparams=<entries separated by commas>
ParamSparams(entries) == SparamsEq \o Join(entries, <<",">>)

\* Queries of up to MaxParams parameters, with or without one sparams list
\* of up to MaxEntries entries at any place among them.
Queries ==
    LET plain == SeqsUpTo(OtherParams, MaxParams)
        places == {x \in plain \X (1..(MaxParams + 1)) : x[2] <= Len(x[1]) + 1}
        lists == SeqsUpTo({ip, exp, expire}, MaxEntries) \ {<< >>}
    IN  (plain \ {<< >>})
        \cup {SubSeq(x[1], 1, x[2] - 1) \o <<ParamSparams(es)>>
                 \o SubSeq(x[1], x[2], Len(x[1])) : x \in places, es \in lists}

\* /t?<query>
BaseUrls == {<<"/", "t", "?">> \o Join(q, <<"&">>) : q \in Queries}

InitUrl ==
    /\ script \in {"cookies", "basic"}
    /\ props = Empty
    /\ pc = "format"
    /\ cookies = Empty
    /\ strategy = 0
    /\ invoked = << >>
    /\ results = << >>
    /\ \E url \in BaseUrls :
        /\ tracks = <<Track(en, Empty, url)>>
        /\ track = Track(en, Empty, url)
    /\ f = 0
    /\ videoId = Empty
    /\ requests = << >>
    /\ reply = NoReply
    /\ answered = 0
    /\ response = NoReply
    /\ scan = NoScan
    /\ obtained = << >>
    /\ me = 1
    /\ other = NoOther
    /\ world = NoWorld

\* One pass of the formats loop up to its fetch: the URL of formats[f].
FormatUrlStep ==
    /\ pc = "format"
    /\ f < Len(formats)
    /\ f' = f + 1
    /\ requests' = Append(requests,
                          CaptionRequest(FormatUrl(BaseUrl(track), formats[f + 1]),
                                         formats[f + 1], 0))
    /\ pc' = IF f + 1 = Len(formats) THEN "formatted" ELSE "format"
    /\ UNCHANGED <<me, other, world, scan, script, props, cookies, strategy,
                   invoked, results, tracks, track, videoId, reply, answered,
                   response, obtained>>

NextUrl == FormatUrlStep

SpecUrl == InitUrl /\ [][NextUrl]_vars

(***************************************************************************)
(* Properties.                                                             *)
(***************************************************************************)
IsError(r) == "error" \in DOMAIN r
IsPayload(r) == "client" \in DOMAIN r
Last(seq) == seq[Len(seq)]
Least(S) == CHOOSE i \in S : \A j \in S : i <= j

\* C5: pickTrack returns the first track with languageCode exactly "en" and
\* kind other than "asr"; failing that the first with languageCode exactly
\* "en"; failing that the first whose languageCode starts with "en"; failing
\* that the first element of the list.
C5_PickTrackFourTiers ==
    pc = "picked" =>
        LET manualEn == {i \in DOMAIN tracks :
                            tracks[i].languageCode = en /\ tracks[i].kind # "asr"}
            anyEn == {i \in DOMAIN tracks : tracks[i].languageCode = en}
            startsEn == {i \in DOMAIN tracks :
                            /\ Len(tracks[i].languageCode) >= Len(en)
                            /\ SubSeq(tracks[i].languageCode, 1, Len(en)) = en}
        IN  IF manualEn # {} THEN track = tracks[Least(manualEn)]
            ELSE IF anyEn # {} THEN track = tracks[Least(anyEn)]
            ELSE IF startsEn # {} THEN track = tracks[Least(startsEn)]
            ELSE IF tracks # << >> THEN track = tracks[1]
            ELSE TRUE

\* C5 witness: the third tier decides, past a first track that only contains
\* "en" and a second that is neither English nor first.
C5_Witness ==
    /\ pc = "picked"
    /\ Len(tracks) = 3
    /\ tracks[1].languageCode = ben
    /\ tracks[2].languageCode = fr
    /\ tracks[3].languageCode = enUS
    /\ track = tracks[3]

ExampleTracks ==
    <<Track(en, "asr", UrlPlain), Track(enUS, "", UrlPlain),
      Track(fr, "", UrlPlain)>>

\* C6 as stated: for [{en, asr}, {en-US, manual}, {fr, manual}] pickTrack
\* returns the en-US manual track.
C6_PicksEnUsManual ==
    (pc = "picked" /\ tracks = ExampleTracks) => track = ExampleTracks[2]

\* C6 as amended: for [{en, asr}, {en-US, manual}, {fr, manual}] pickTrack
\* returns the auto-generated "en" track, the first element: an exact "en"
\* of any kind (tier 2) is preferred to a regional variant (tier 3).
C6_PicksEnAsr ==
    (pc = "picked" /\ tracks = ExampleTracks) => track = ExampleTracks[1]

C6_Witness == pc = "picked" /\ tracks = ExampleTracks /\ track.kind = "asr"

\* C7: pickTrack returns an element of a non-empty list, whatever fields its
\* tracks lack, and returns none exactly for the empty list.
C7_PickTrackTotal ==
    pc = "picked" =>
        /\ tracks # << >> => \E i \in DOMAIN tracks : track = tracks[i]
        /\ track = Null <=> tracks = << >>

\* C7 witness: no track is English and the first has no languageCode at all.
C7_Witness ==
    /\ pc = "picked"
    /\ Len(tracks) = 2
    /\ tracks[1].languageCode = Empty
    /\ tracks[2].languageCode = fr
    /\ track = tracks[1]

Size(text) == Length(text, Len(text))

\* C11 as stated: a well-formed JSON object embedded at startIdx is returned
\* exactly, from startIdx to its closing brace, whatever its strings hold and
\* whatever surrounds it.
C11_RoundTrip ==
    (pc = "scanned" /\ scan.object # << >>) =>
        scan.jsonStr = [from |-> scan.startIdx,
                        to |-> scan.startIdx + Size(scan.object)]

\* C11 as amended: the object is returned exactly when it is at most
\* MaxScan characters long, and null is returned when it is longer.
C11_RoundTripWithinLimit ==
    (pc = "scanned" /\ scan.object # << >>) =>
        IF Size(scan.object) <= MaxScan
        THEN scan.jsonStr = [from |-> scan.startIdx,
                             to |-> scan.startIdx + Size(scan.object)]
        ELSE scan.jsonStr = Null

\* C11 witness: an object whose string holds an escaped quote and a closing
\* brace, followed by another closing brace, was returned.
C11_Witness ==
    /\ pc = "scanned"
    /\ scan.object =
         <<LB>> \o Key \o JsonString(<<Backslash, Quote, RB>>) \o <<RB>>
    /\ scan.html = <<Quote, LB>> \o scan.object \o <<RB>>
    /\ scan.jsonStr # Null

\* An object of exactly MaxScan characters is returned whole.
LongestObjectReturned ==
    /\ pc = "scanned"
    /\ Size(scan.object) = MaxScan
    /\ scan.jsonStr = [from |-> scan.startIdx, to |-> scan.startIdx + MaxScan]

\* C12: extractJson returns, and returns null whenever the depth has not
\* come back to zero before the end of the text or startIdx + MaxScan; a
\* returned substring ends at a closing brace inside both.
C12_BoundedScan ==
    /\ [](pc = "scanned" =>
            /\ scan.depth # 0 => scan.jsonStr = Null
            /\ scan.jsonStr = Null =>
                    scan.i >= Min(Size(scan.html), scan.startIdx + MaxScan)
            /\ scan.jsonStr # Null =>
                    /\ scan.jsonStr.from = scan.startIdx
                    /\ scan.jsonStr.to <= scan.startIdx + MaxScan
                    /\ scan.jsonStr.to <= Size(scan.html)
                    /\ scan.html[scan.r] = RB
                    /\ scan.jsonStr.to = Length(scan.html, scan.r))
    /\ <>(pc = "scanned")

\* C12 witness: the scan stopped at startIdx + MaxScan with text left over.
C12_Witness ==
    /\ pc = "scanned"
    /\ scan.jsonStr = Null
    /\ scan.i = scan.startIdx + MaxScan
    /\ scan.i < Size(scan.html)

\* The run of html that begins at startIdx.
StartRun(sc) == CHOOSE r \in 1..Len(sc.html) : Length(sc.html, r - 1) = sc.startIdx

\* Whether the text of runs r0..k, read from r0 outside any string, ends
\* inside a string literal, and whether its last character is an escaping
\* backslash.
RECURSIVE Lex(_, _, _)
Lex(html, r0, k) ==
    IF k < r0 THEN [inStr |-> FALSE, esc |-> FALSE]
    ELSE LET before == Lex(html, r0, k - 1)
             c == html[k].c
         IN  IF before.esc THEN [before EXCEPT !.esc = FALSE]
             ELSE IF before.inStr /\ c = "\\" THEN [before EXCEPT !.esc = TRUE]
             ELSE IF c = "\"" THEN [before EXCEPT !.inStr = ~before.inStr]
             ELSE before

\* Run k is the brace b outside strings.
BraceOutside(html, r0, k, b) == html[k].c = b /\ ~Lex(html, r0, k - 1).inStr

\* How many braces b lie outside strings in runs r0..k.
Count(html, r0, k, b) ==
    Cardinality({j \in r0..k : BraceOutside(html, r0, j, b)})

\* Runs r0..k are balanced: as many closing as opening braces outside
\* strings, and never more closing than opening ones on the way.
Balanced(html, r0, k) ==
    /\ Count(html, r0, k, "{") = Count(html, r0, k, "}")
    /\ \A j \in r0..k : Count(html, r0, j, "}") <= Count(html, r0, j, "{")

\* Run k is the first closing brace outside strings at which the two counts
\* are equal.
FirstEvenClose(html, r0, k) ==
    /\ BraceOutside(html, r0, k, "}")
    /\ Count(html, r0, k, "{") = Count(html, r0, k, "}")
    /\ \A j \in r0..(k - 1) :
           BraceOutside(html, r0, j, "}") =>
               Count(html, r0, j, "{") # Count(html, r0, j, "}")

\* The first brace outside strings at or after startIdx is an opening one.
OpensFirst(html, r0) ==
    \E k \in r0..Len(html) :
        /\ BraceOutside(html, r0, k, "{")
        /\ \A j \in r0..(k - 1) : ~BraceOutside(html, r0, j, "}")

\* C21 as stated: a returned substring starts at startIdx, ends at the first
\* closing brace at which the braces outside strings are equal in number,
\* and is balanced, whatever the character at startIdx.
C21_ReturnsBalanced ==
    (pc = "scanned" /\ scan.jsonStr # Null) =>
        /\ scan.jsonStr.from = scan.startIdx
        /\ scan.jsonStr.to = Length(scan.html, scan.r)
        /\ FirstEvenClose(scan.html, StartRun(scan), scan.r)
        /\ Balanced(scan.html, StartRun(scan), scan.r)

\* C21 as amended: a returned substring starts at startIdx and ends at the
\* first closing brace at which the braces outside strings are equal in
\* number; it is balanced exactly when the first brace outside strings is
\* an opening one.
C21_ReturnsEvenCounts ==
    (pc = "scanned" /\ scan.jsonStr # Null) =>
        /\ scan.jsonStr.from = scan.startIdx
        /\ scan.jsonStr.to = Length(scan.html, scan.r)
        /\ FirstEvenClose(scan.html, StartRun(scan), scan.r)
        /\ Balanced(scan.html, StartRun(scan), scan.r)
               <=> OpensFirst(scan.html, StartRun(scan))

\* C21 witness: the text }{{} at startIdx was returned whole.
C21_Witness ==
    /\ pc = "scanned"
    /\ scan.html = <<Quote, LB, RB, LB, LB, RB>>
    /\ scan.startIdx = 2
    /\ scan.jsonStr = [from |-> 2, to |-> 6]

\* The formats of the caption requests issued by the k-th strategy call.
CaptionFmts(k) ==
    LET mine == SelectSeq(requests, LAMBDA r : r.kind = "caption" /\ r.by = k)
    IN  [i \in 1..Len(mine) |-> mine[i].fmt]

IsPrefix(a, b) == Len(a) <= Len(b) /\ a = SubSeq(b, 1, Len(a))

\* How many strategies a resolution has to offer.
StrategiesOffered ==
    CASE script = "cookies" -> IF cookies # Empty THEN 3 ELSE 2
      [] script = "basic" -> 2
      [] script = "clients" -> 3

\* A caption response with status 200, a body that is not blank and, for
\* json3, a non-empty events array.
Passes(fmt, r) ==
    /\ ~r.fault
    /\ r.code = 200
    /\ r.content \notin {Empty, BlankBody}
    /\ fmt = json3 => r.content = EventsBody

IsCaptionReply == "content" \in DOMAIN reply

\* C1: strategies are called one at a time in list order; the first success
\* ends the resolution with that strategy's payload, whose source tag is the
\* succeeding strategy's, and no later strategy is called.
C1_ShortCircuit ==
    LET names == CASE script = "cookies" ->
                        <<"tryWatchPage", "tryInnertube", "tryWatchPage">>
                   [] script = "basic" -> <<"tryWatchPage", "tryInnertube">>
                   [] script = "clients" -> <<"tryClient", "tryClient", "tryClient">>
        tags == CASE script = "cookies" ->
                        <<<<"watch-page">>, <<"innertube-WEB">>, <<"watch-page">>>>
                  [] script = "basic" -> <<<<"watch-page">>, <<"innertube-WEB">>>>
                  [] script = "clients" ->
                        <<<<"ANDROID">>, <<"ANDROID_VR">>, <<"IOS">>>>
    IN  /\ Len(invoked) <= Len(names)
        /\ Len(results) <= Len(invoked)
        /\ Len(invoked) <= Len(results) + 1
        /\ \A k \in DOMAIN invoked :
            /\ invoked[k].name = names[k]
            /\ script = "clients" => invoked[k].client = tags[k]
        /\ \A k \in DOMAIN results :
            results[k].success =>
                /\ k = Len(results)
                /\ Len(invoked) = k
                /\ pc = "done"
                /\ response = results[k].data
                /\ response.client = tags[k]

\* C1 witness: the second of three strategies succeeded.
C1_Witness ==
    /\ script = "cookies"
    /\ cookies # Empty
    /\ pc = "done"
    /\ Len(results) = 2
    /\ results[2].success
    /\ Len(invoked) = 2

\* C2: when every strategy that ran has failed, the error doPost returns
\* contains the error string of each of them.
C2_AggregateHasEveryError ==
    ( /\ pc = "done"
      /\ IsError(response)
      /\ results # << >>
      /\ Len(results) = Len(invoked)
      /\ \A k \in DOMAIN results : ~results[k].success )
    => \A k \in DOMAIN results : Contains(response.error, results[k].error)

\* C3: a fault inside a strategy (fetch throws, the body does not parse, a
\* field of null is read) becomes that strategy's failure outcome with the
\* fault's message, doPost goes on to the remaining strategies, and doPost
\* ends with a payload or an error value.
C3_FaultsContained ==
    LET k == requests[answered].by
        kind == requests[answered].kind
        pageFault ==
            /\ kind = "watch"
            /\ \/ reply.fault
               \/ /\ reply.code = 200
                  /\ ~reply.signIn /\ ~reply.notBot
                  /\ reply.idx # -1
                  /\ reply.jsonStart # -1
                  /\ reply.jsonStart <= reply.idx + JsonStartWindow
                  /\ reply.json = "garbage"
        apiFault ==
            /\ kind \in {"innertube", "client"}
            /\ reply.fault \/ (reply.code = 200 /\ reply.json \in {"garbage", "null"})
        captionFault == kind = "caption" /\ reply.fault
        wentOn == IF k < StrategiesOffered THEN Len(invoked) > k
                  ELSE pc = "done" /\ IsError(response)
    IN  /\ answered > 0 /\ (pageFault \/ apiFault) =>
            /\ k \in DOMAIN results
            /\ ~results[k].success
            /\ results[k].error \in {TransportError, SyntaxError, TypeError}
            /\ wentOn
        /\ answered > 0 /\ captionFault =>
            \/ k = Len(invoked) /\ pc \in {"caption", "clientCaption"}
            \/ k \in DOMAIN results /\ ~results[k].success /\ wentOn
        /\ pc = "done" => IsError(response) \/ IsPayload(response)

\* C4: the cookie script calls tryWatchPage with the cookies, then
\* tryInnertube with the cookies, then tryWatchPage without cookies; each
\* only after all earlier ones were called and failed, and never the same
\* function twice with the same cookies.
C4_StrategyOrder ==
    script = "cookies" =>
        /\ Len(invoked) <= 3
        /\ \A k \in DOMAIN invoked :
            /\ invoked[k].name = <<"tryWatchPage", "tryInnertube", "tryWatchPage">>[k]
            /\ invoked[k].cookies = <<cookies, cookies, Empty>>[k]
            /\ \A j \in 1..(k - 1) : j \in DOMAIN results /\ ~results[j].success
            /\ \A j \in 1..(k - 1) :
                <<invoked[j].name, invoked[j].cookies>>
                    # <<invoked[k].name, invoked[k].cookies>>
            /\ LET mine == {i \in DOMAIN requests : requests[i].by = k}
               IN  /\ mine # {}
                   /\ requests[Least(mine)].kind = <<"watch", "innertube", "watch">>[k]
                   /\ \A i \in mine \ {Least(mine)} : requests[i].kind = "caption"

\* C4 witness: the cookie-free retry is running after two failures.
C4_Witness ==
    /\ script = "cookies"
    /\ pc = "watch"
    /\ Len(invoked) = 3
    /\ Len(results) = 2

\* The caption requests of the k-th strategy call follow the negotiation:
\* json3, srv3, default in that order, success names the last format asked
\* and its response passes, failure comes only after all three, and a new
\* attempt is made only when the response before it did not pass.
Negotiated(k) ==
    LET fmts == CaptionFmts(k)
    IN  /\ IsPrefix(fmts, <<json3, srv3, Empty>>)
        /\ k \in DOMAIN results /\ results[k].success =>
            /\ fmts # << >>
            /\ results[k].data.format =
                   (IF Last(fmts) = Empty THEN Default ELSE Last(fmts))
            /\ IsCaptionReply /\ Passes(Last(fmts), reply)
        /\ k \in DOMAIN results /\ ~results[k].success /\ fmts # << >> =>
            fmts = <<json3, srv3, Empty>>
        /\ k \notin DOMAIN results /\ Len(fmts) >= 2 =>
            IsCaptionReply /\ ~Passes(fmts[Len(fmts) - 1], reply)

\* C8: every caption fetch negotiates json3, then srv3, then the default
\* format, each at most once, and stops at the first response that passes;
\* the payload's format names that attempt.
C8_FormatNegotiation == \A k \in DOMAIN invoked : Negotiated(k)

\* C8 holds of fetchCaptions, which the "cookies" and "basic" scripts use.
FetchCaptionsNegotiates ==
    script # "clients" => \A k \in DOMAIN invoked : Negotiated(k)

\* C9: a payload of format json3 carries a body that parses and has a
\* non-empty events array; a 200, non-blank json3 body without one makes the
\* code ask for the next format.
C9_Json3Validated ==
    /\ pc = "done" /\ IsPayload(response) /\ response.format = json3 =>
        /\ JsonParse(response.content).ok
        /\ ~JsonParse(response.content).null
        /\ JsonParse(response.content).events = "some"
    /\ ( /\ IsCaptionReply
         /\ requests[answered].fmt = json3
         /\ ~reply.fault /\ reply.code = 200
         /\ reply.content \notin {Empty, BlankBody}
         /\ reply.content # EventsBody )
       => /\ answered < Len(requests)
          /\ requests[answered + 1].kind = "caption"
          /\ requests[answered + 1].by = requests[answered].by
          /\ requests[answered + 1].fmt = srv3

\* C9 holds of fetchCaptions, which the "cookies" and "basic" scripts use.
FetchCaptionsValidatesJson3 == script # "clients" => C9_Json3Validated

\* C10: when the third (default) attempt of fetchCaptions fails as well, by
\* status, blank body or transport fault, the strategy's outcome is the one
\* failure "All caption format fetches failed" and doPost calls the next
\* strategy, or returns the aggregate error after the last one.
C10_AllFormatsFailed ==
    ( /\ script # "clients"
      /\ IsCaptionReply
      /\ requests[answered].fmt = Empty
      /\ ~Passes(Empty, reply) )
    => LET k == requests[answered].by
       IN  /\ CaptionFmts(k) = <<json3, srv3, Empty>>
           /\ k \in DOMAIN results
           /\ results[k] = Failure(<<"All caption format fetches failed">>)
           /\ IF k < StrategiesOffered
              THEN pc \in {"watch", "innertube"} /\ Len(invoked) = k + 1
              ELSE /\ pc = "done"
                   /\ IsError(response)
                   /\ Contains(response.error,
                               <<"No captions found for this video.">>)

\* C10 witness: the default attempt of the first strategy met a transport
\* fault and the second strategy has been called.
C10_Witness ==
    /\ script = "cookies"
    /\ IsCaptionReply
    /\ reply.fault
    /\ requests[answered].fmt = Empty
    /\ requests[answered].by = 1
    /\ pc = "innertube"

\* Every strategy doPost called has returned after reading a playability
\* status other than "OK".
AllUnplayable ==
    /\ pc = "done"
    /\ obtained # << >>
    /\ Len(obtained) = Len(invoked)
    /\ Len(results) = Len(invoked)
    /\ \A k \in DOMAIN obtained : obtained[k] # Null

\* The error names the reason, or failing that the status, that some
\* strategy read.
MentionsPlayability ==
    /\ IsError(response)
    /\ \E k \in DOMAIN obtained :
        Contains(response.error, OrElse(obtained[k].reason, obtained[k].status))

\* C13: when every strategy read a playability status other than "OK",
\* doPost returns an error that contains the reason (or, without one, the
\* status) given to at least one of them.
C13_PlayabilityMentioned == AllUnplayable => MentionsPlayability

\* C13 holds of the scripts whose strategies return an error string.
PlayabilityMentionedByAggregate ==
    (script # "clients" /\ AllUnplayable) => MentionsPlayability

\* The strategy that sent a request of this kind parsed a player object out
\* of response r.
ParsedPlayer(kind, r) ==
    /\ ~r.fault
    /\ r.code = 200
    /\ r.json = "object"
    /\ kind = "watch" =>
        /\ ~r.signIn /\ ~r.notBot
        /\ r.idx # -1
        /\ r.jsonStart # -1
        /\ r.jsonStart <= r.idx + JsonStartWindow

\* r is playable for that strategy and carries no caption track.
PlayableWithoutTracks(kind, r) ==
    /\ ParsedPlayer(kind, r)
    /\ r.player.status = OK \/ (kind = "watch" /\ r.player.status = Empty)
    /\ r.player.captions # "list" \/ r.player.captionTracks = << >>

\* C14: tryWatchPage and tryInnertube answer a playable response without
\* caption tracks with their no-caption-tracks error and request no caption
\* content; no other response leads to that error.
C14_NoCaptionTracksDistinct ==
    (script # "clients" /\ answered > 0) =>
        LET k == requests[answered].by
            kind == requests[answered].kind
            absent == kind \in {"watch", "innertube"}
                      /\ PlayableWithoutTracks(kind, reply)
        IN  /\ absent =>
                /\ k \in DOMAIN results
                /\ results[k] =
                     Failure(IF kind = "watch"
                             THEN <<"No caption tracks in player response">>
                             ELSE <<"No caption tracks">>)
                /\ CaptionFmts(k) = << >>
            /\ ( /\ k \in DOMAIN results
                 /\ ~results[k].success
                 /\ results[k].error \in
                        {<<"No caption tracks in player response">>,
                         <<"No caption tracks">>} )
               => absent

\* C14 witness: tryInnertube was told "OK" without a track list and the
\* cookie-free retry has been called.
C14_Witness ==
    /\ script = "cookies"
    /\ pc = "watch"
    /\ Len(invoked) = 3
    /\ requests[answered].kind = "innertube"
    /\ reply.player.status = OK
    /\ reply.player.captions = "undefined"
    /\ results[2].error = <<"No caption tracks">>

\* The source tag of the k-th strategy call.
TagOf(k) ==
    CASE invoked[k].name = "tryWatchPage" -> <<"watch-page">>
      [] invoked[k].name = "tryInnertube" -> <<"innertube-WEB">>
      [] invoked[k].name = "tryClient" -> invoked[k].client

FetchingCaptions == pc \in {"caption", "clientCaption"}

\* C15: while a strategy fetches captions, its track list is the one its own
\* player response carried and its track is pickTrack's choice from it, kept
\* until the strategy returns, and the caption URL asked is that track's; a
\* payload reports that track, that list's size, the content of the response
\* to that request and the tag of the strategy that made it.
C15_TrackProvenance ==
    /\ [](FetchingCaptions =>
            LET k == Len(invoked)
                mine == {i \in DOMAIN requests : requests[i].by = k}
                last == requests[Len(requests)]
            IN  /\ tracks # << >>
                /\ track = pickTrack(tracks)
                /\ answered = Least(mine) =>
                        /\ ParsedPlayer(requests[answered].kind, reply)
                        /\ tracks = reply.player.captionTracks
                /\ last.kind = "caption" /\ last.by = k
                /\ last.url = IF script = "clients"
                              THEN track.baseUrl \o <<"&">> \o FmtEq \o json3
                              ELSE FormatUrl(BaseUrl(track), last.fmt))
    /\ [][(FetchingCaptions /\ pc' = pc) =>
            tracks' = tracks /\ track' = track /\ invoked' = invoked]_vars
    /\ [][(FetchingCaptions /\ pc' = "done" /\ IsPayload(response')) =>
            /\ response'.track.languageCode = track.languageCode
            /\ response'.track.kind = track.kind
            /\ response'.trackCount = Len(tracks)
            /\ response'.content = reply'.content
            /\ answered' = Len(requests)
            /\ requests' = requests
            /\ invoked' = invoked
            /\ response'.client = TagOf(Len(invoked))]_vars

\* C15 witness: the second strategy returned a payload for the English track
\* of its own list of two, after the first strategy had had a track list of
\* its own and failed.
C15_Witness ==
    /\ script = "cookies"
    /\ pc = "done"
    /\ IsPayload(response)
    /\ Len(invoked) = 2
    /\ results[1].error = <<"All caption format fetches failed">>
    /\ response.trackCount = 2
    /\ response.track.languageCode = en
    /\ response.client = <<"innertube-WEB">>

(***************************************************************************)
(* doPost run alone, from its post to its response, against an upstream    *)
(* that answers as `w` says.                                               *)
(***************************************************************************)
Returned(result) == [kind |-> "return", result |-> result, message |-> Empty]
Thrown(message) == [kind |-> "throw", result |-> Failure(Empty), message |-> message]

\* fetchCaptions(videoId, list, source) in the n-th strategy call.
AloneFetchCaptions(w, call, list, n) ==
    LET t == pickTrack(list)
        ask(i) == Upstream(w, CaptionRequest(FormatUrl(BaseUrl(t), formats[i]),
                                             formats[i], n))
        hits == {i \in DOMAIN formats : CaptionAccepted(formats[i], ask(i))}
        hit == CHOOSE i \in hits : \A j \in hits : i <= j
    IN  IF t = Null \/ t.baseUrl = Empty
        THEN Returned(Failure(<<"No suitable track with URL">>))
        ELSE IF hits = {}
        THEN Returned(Failure(<<"All caption format fetches failed">>))
        ELSE Returned(Success(Payload(t, ask(hit).content,
                                      OrElse(formats[hit], Default),
                                      Source(call), list)))

\* The second half of tryClient.
AloneClientCaptions(w, call, list, n) ==
    LET t == pickTrack(list)
        resp == Upstream(w, CaptionRequest(t.baseUrl \o <<"&">> \o FmtEq \o json3,
                                           json3, n))
    IN  IF t = Null \/ t.baseUrl = Empty THEN Returned(Failure(Empty))
        ELSE IF resp.fault THEN Thrown(TransportError)
        ELSE IF resp.code # 200 THEN Returned(Failure(Empty))
        ELSE IF resp.content = Empty \/ Len(Trim(resp.content)) = 0
             THEN Returned(Failure(Empty))
        ELSE Returned(Success(Payload(t, resp.content, json3, call.client, list)))

\* The n-th strategy call of script s.
AloneStrategy(w, s, n, c, vid) ==
    LET call == StrategyCall(s, n, c)
        resp == Upstream(w, FirstRequest(call, vid, n))
        try == CASE call.name = "tryWatchPage" -> WatchPageTry(resp)
                 [] call.name = "tryInnertube" -> InnertubeTry(resp)
                 [] call.name = "tryClient" -> ClientTry(resp)
    IN  IF try.kind = "tracks"
        THEN IF s = "clients" THEN AloneClientCaptions(w, call, try.tracks, n)
             ELSE AloneFetchCaptions(w, call, try.tracks, n)
        ELSE IF try.kind = "throw" /\ s = "clients" THEN Thrown(try.error)
        ELSE Returned(Failure(try.error))

\* doPost from its n-th strategy on, rs being the failures so far.
RECURSIVE AloneFrom(_, _, _, _, _, _)
AloneFrom(w, s, n, c, vid, rs) ==
    LET o == AloneStrategy(w, s, n, c, vid)
    IN  IF o.kind = "throw" THEN [error |-> o.message]
        ELSE IF o.result.success THEN o.result.data
        ELSE IF HasNext(s, n, c)
             THEN AloneFrom(w, s, n + 1, c, vid, Append(rs, o.result))
        ELSE [error |-> AggregateError(s, Append(rs, o.result), c)]

AloneDoPost(w, s, body) ==
    AloneFrom(w, s, 1,
              IF s = "cookies"
              THEN MergedCookies(OrElse(w.props, Empty), body.cookies)
              ELSE Empty,
              body.videoId, << >>)

\* C16: of two executions of doPost that interleave at every fetch, each
\* returns what it would return running alone against the same upstream; no
\* step of one changes a variable of the other, and no step changes the
\* Script Properties that both read.
C16_Independent ==
    /\ [](/\ pc = "done" =>
                response = AloneDoPost(world, script, world.post[me])
          /\ other.pc = "done" =>
                other.response = AloneDoPost(world, script, world.post[3 - me]))
    /\ [][props' = props]_vars
    /\ [][other' # other => (me' # me /\ other' = Locals)]_vars

\* C16 witness: one execution has returned a payload while the other, begun
\* before that, is in its second strategy's caption fetch.
C16_Witness ==
    /\ script = "cookies"
    /\ pc = "done"
    /\ IsPayload(response)
    /\ other.pc = "caption"
    /\ Len(other.invoked) = 2

Tip == <<" TIP: Add YT_COOKIES to Script Properties for reliable access.">>

\* No request of the execution carried a cookie of the user: every Cookie
\* header sent was the fixed consent cookie alone.
RanWithoutCredentials ==
    \A i \in DOMAIN requests :
        requests[i].kind \in {"watch", "innertube"} =>
            requests[i].cookie = ConsentCookies

\* C17: the aggregate error of the cookie script contains the TIP exactly
\* when the resolution sent no credentials, stored or posted; a payload is
\* never an error and holds no TIP.
C17_TipIffNoCredentials ==
    (script = "cookies" /\ pc = "done" /\ invoked # << >>) =>
        /\ IsError(response) =>
            /\ Len(results) = Len(invoked)
            /\ Contains(response.error, Tip) <=> RanWithoutCredentials
            /\ RanWithoutCredentials <=> cookies = Empty
            /\ props = Empty => (RanWithoutCredentials \/ cookies = <<"HSID=2">>)
        /\ ~IsError(response) =>
            /\ IsPayload(response)
            /\ ~Contains(response.content, Tip)
            /\ ~Contains(response.format, Tip)
            /\ ~Contains(response.client, Tip)

\* C17 witness: two strategies failed without credentials and the error ends
\* with the TIP.
C17_Witness ==
    /\ script = "cookies"
    /\ pc = "done"
    /\ IsError(response)
    /\ Len(invoked) = 2
    /\ cookies = Empty
    /\ Last(response.error) = Tip[1]

\* What the k-th strategy did after a playability check that let it pass:
\* it failed for want of tracks or of a track with a URL, or it asked for
\* captions.
WentOnToTracks(k, kind, r) ==
    IF r.player.captions # "list" \/ r.player.captionTracks = << >>
    THEN /\ k \in DOMAIN results
         /\ results[k] = Failure(IF kind = "watch"
                                 THEN <<"No caption tracks in player response">>
                                 ELSE <<"No caption tracks">>)
    ELSE \/ CaptionFmts(k) # << >>
         \/ /\ k \in DOMAIN results
            /\ results[k] = Failure(<<"No suitable track with URL">>)

\* C18: tryWatchPage fails on playability only for a status that is present
\* and not "OK" and goes on to the track list when the status is absent;
\* tryInnertube fails unless the status is "OK", an absent one included; a
\* strategy that fails so asks for no captions.
C18_PlayabilityGating ==
    (script # "clients" /\ answered > 0
        /\ requests[answered].kind \in {"watch", "innertube"}
        /\ ParsedPlayer(requests[answered].kind, reply)) =>
        LET k == requests[answered].by
            kind == requests[answered].kind
            ps == reply.player
            refused(error) == /\ k \in DOMAIN results
                              /\ results[k] = Failure(error)
                              /\ CaptionFmts(k) = << >>
        IN  /\ (kind = "watch" /\ ps.status \notin {Empty, OK}) =>
                    refused(IF ps.reason # Empty THEN ps.reason ELSE ps.status)
            /\ (kind = "watch" /\ ps.status \in {Empty, OK}) =>
                    WentOnToTracks(k, kind, reply)
            /\ (kind = "innertube" /\ ps.status # OK) =>
                    refused(IF ps.reason # Empty THEN ps.reason
                            ELSE IF ps.status # Empty THEN ps.status
                            ELSE <<"Not OK">>)
            /\ (kind = "innertube" /\ ps.status = OK) =>
                    WentOnToTracks(k, kind, reply)

\* C18 witness: tryWatchPage read a player response without a status and has
\* asked for the captions of its track.
C18_Witness ==
    /\ script = "cookies"
    /\ pc = "caption"
    /\ requests[answered].kind = "watch"
    /\ reply.player.status = Empty
    /\ f = 1

\* C18 second case: tryInnertube read a player response without a status and
\* failed with "Not OK".
AbsentStatusFailsInnertube ==
    /\ requests # << >>
    /\ answered > 0
    /\ requests[answered].kind = "innertube"
    /\ ParsedPlayer("innertube", reply)
    /\ reply.player.status = Empty
    /\ results[requests[answered].by] = Failure(<<"Not OK">>)

\* The k-th strategy failed with the HTTP-status error for response r.
FailedWithStatus(k, r) ==
    /\ k \in DOMAIN results
    /\ results[k] = Failure(<<"HTTP ", ToString(r.code)>>)

\* C19: tryWatchPage and tryInnertube fail with "HTTP <code>" exactly when
\* the response code is outside 200..299.
C19_FailsIffNot2xx ==
    (script # "clients" /\ answered > 0
        /\ requests[answered].kind \in {"watch", "innertube"}
        /\ ~reply.fault) =>
        (FailedWithStatus(requests[answered].by, reply)
            <=> reply.code \notin 200..299)

\* What the code does: it fails with "HTTP <code>" exactly when the code is
\* not 200.
FailsIffNot200 ==
    (script # "clients" /\ answered > 0
        /\ requests[answered].kind \in {"watch", "innertube"}
        /\ ~reply.fault) =>
        (FailedWithStatus(requests[answered].by, reply) <=> reply.code # 200)

\* C20: a watch page that tryWatchPage reads (status 200) and that contains
\* either challenge phrase makes it fail with "Bot detection triggered",
\* which is not the HTTP-status error, and ask for no captions, even when the
\* page also holds a player response with caption tracks; no other page
\* leads to that error.
C20_BotCheckFirst ==
    (script # "clients" /\ answered > 0 /\ requests[answered].kind = "watch") =>
        LET k == requests[answered].by
            challenged == /\ ~reply.fault
                          /\ reply.code = 200
                          /\ reply.signIn \/ reply.notBot
        IN  /\ challenged =>
                /\ k \in DOMAIN results
                /\ results[k] = Failure(<<"Bot detection triggered">>)
                /\ ~FailedWithStatus(k, reply)
                /\ CaptionFmts(k) = << >>
            /\ ( /\ k \in DOMAIN results
                 /\ ~results[k].success
                 /\ results[k].error = <<"Bot detection triggered">> )
               => challenged

\* C20 witness: the page held the second phrase only, and a player response
\* with a caption track.
C20_Witness ==
    /\ script = "basic"
    /\ answered > 0
    /\ requests[answered].kind = "watch"
    /\ reply.notBot /\ ~reply.signIn
    /\ reply.json = "object"
    /\ reply.player.captionTracks # << >>
    /\ results = <<Failure(<<"Bot detection triggered">>)>>

\* A page with a challenge phrase that comes with a status other than 200 is
\* answered with the HTTP-status error: the status test comes before.
StatusCheckBeforeBotCheck ==
    (script # "clients" /\ answered > 0 /\ requests[answered].kind = "watch"
        /\ ~reply.fault /\ reply.code # 200 /\ reply.signIn) =>
        FailedWithStatus(requests[answered].by, reply)

\* The pieces of s between occurrences of the character sep.
RECURSIVE Split(_, _)
Split(s, sep) ==
    LET at == {k \in 1..Len(s) : s[k] = sep}
    IN  IF at = {} THEN <<s>>
        ELSE LET k == Least(at)
             IN  <<SubSeq(s, 1, k - 1)>> \o Split(SubSeq(s, k + 1, Len(s)), sep)

\* A URL's path (up to its first "?") and its query parameters.
PathOf(url) == Split(url, "?")[1]
ParamsOf(url) ==
    IF IndexOf(url, <<"?">>) = -1 THEN << >>
    ELSE LET q == SubSeq(url, IndexOf(url, <<"?">>) + 2, Len(url))
         IN  IF q = Empty THEN << >> ELSE Split(q, "&")

RECURSIVE Without(_, _)
Without(seq, drop) ==
    IF seq = << >> THEN << >>
    ELSE IF Head(seq) \in drop THEN Without(Tail(seq), drop)
    ELSE <<Head(seq)>> \o Without(Tail(seq), drop)

IsExpParam(param) == IsPrefix(ExpEq, param)
IsSparams(param) == IsPrefix(SparamsEq, param)

\* The baseUrl fetchCaptions works with: the URL of its last attempt, which
\* asks for no format.
Preprocessed == requests[Len(formats)].url

\* C22: the preprocessed URL keeps the path, the "?" and every parameter of
\* track.baseUrl other than exp=..., in their order (the sparams list apart,
\* which the repair may rewrite), wherever exp=... stood.
C22_ExpStripped ==
    pc = "formatted" =>
        LET before == ParamsOf(track.baseUrl)
            kept == Without(before, {q \in OtherParams : IsExpParam(q)})
            after == ParamsOf(Preprocessed)
        IN  /\ tracks[1].baseUrl = track.baseUrl
            /\ PathOf(Preprocessed) = PathOf(track.baseUrl)
            /\ Len(after) = Len(kept)
            /\ \A k \in 1..Len(kept) :
                   \/ after[k] = kept[k]
                   \/ IsSparams(after[k]) /\ IsSparams(kept[k])

\* The exp=... parameter is removed cleanly when it is not the first one.
ExpStrippedUnlessFirst ==
    (pc = "formatted" /\ ~IsExpParam(ParamsOf(track.baseUrl)[1])) => C22_ExpStripped

\* The entries of a URL's sparams list.
SparamsOf(url) ==
    LET from == IndexOf(url, SparamsEq) + 1 + Len(SparamsEq)
        list == SubSeq(url, from, RunEnd(url, from) - 1)
    IN  IF list = Empty THEN << >> ELSE Split(list, ",")

HasSparams(url) == IndexOf(url, SparamsEq) # -1

\* C23: the repair takes the entries that are exactly exp out of the sparams
\* list and leaves every other entry, and a list without exp, as it was.
C23_OnlyExpEntryRemoved ==
    (pc = "formatted" /\ HasSparams(track.baseUrl)) =>
        /\ HasSparams(Preprocessed)
        /\ SparamsOf(Preprocessed) = Without(SparamsOf(track.baseUrl), {exp})

\* A list of ip and exp alone, exp=... having been a parameter, is repaired
\* as C23 says when it holds exp once beside ip.
SparamsRepairedWithoutExpire ==
    (/\ pc = "formatted"
     /\ HasSparams(track.baseUrl)
     /\ SparamsOf(track.baseUrl) \in {<<ip, exp>>, <<exp, ip>>, <<ip>>, <<ip, ip>>})
        => C23_OnlyExpEntryRemoved


\* The requests of the k-th strategy call whose kind is in kinds.
RequestsBy(k, kinds) ==
    {i \in DOMAIN requests : requests[i].by = k /\ requests[i].kind \in kinds}

\* The most requests one resolution issues: three strategies, each with one
\* page or API request and one request per caption format.
MostRequests == 3 * (1 + Len(formats))

\* C24: a strategy issues at most one page or API request and at most three
\* caption requests, never two for the same format; a resolution issues at
\* most twelve requests, none without a videoId. Every step of a resolution
\* issues one more request or ends it with a response, so a resolution,
\* whose every fetch returns or throws, ends with a response within
\* thirteen steps.
C24_BoundedRequests ==
    /\ [](/\ Len(requests) <= 12
          /\ videoId = Empty => requests = << >>
          /\ \A i \in DOMAIN requests : requests[i].by \in DOMAIN invoked
          /\ \A k \in DOMAIN invoked :
                /\ Cardinality(RequestsBy(k, {"watch", "innertube", "client"})) <= 1
                /\ Cardinality(RequestsBy(k, {"caption"})) <= 3
                /\ \A i, j \in RequestsBy(k, {"caption"}) :
                       requests[i].fmt = requests[j].fmt => i = j
          /\ pc = "done" => response # NoReply)
    /\ [][\/ /\ pc' # "done"
              /\ Len(requests') = Len(requests) + 1
              /\ SubSeq(requests', 1, Len(requests)) = requests
           \/ /\ pc' = "done"
              /\ requests' = requests
              /\ response' # NoReply]_vars

\* C24 witness: a resolution that issued twelve requests has ended.
C24_Witness ==
    /\ pc = "done"
    /\ response # NoReply
    /\ Len(requests) = MostRequests
    /\ Len(invoked) = 3


\* The page and WEB Innertube requests issued so far.
BrowserRequests == {i \in DOMAIN requests : requests[i].kind \in {"watch", "innertube"}}

\* C25: every page and WEB Innertube request carries the consent cookies;
\* the first two strategies put the resolution's cookies, if any, in front
\* of them; the third sends the consent cookies alone and is called only
\* when the resolution has cookies, so that a resolution without cookies
\* calls two strategies at most, and both when it finds no captions.
C25_CredentialScoping ==
    /\ \A i \in BrowserRequests :
          LET sent == requests[i].cookie
          IN  /\ Contains(sent, ConsentCookies)
              /\ requests[i].by \in {1, 2} =>
                    sent = IF cookies # Empty
                           THEN cookies \o <<"; ">> \o ConsentCookies
                           ELSE ConsentCookies
              /\ requests[i].by = 3 =>
                    /\ sent = ConsentCookies
                    /\ requests[i].kind = "watch"
                    /\ cookies # Empty
              /\ requests[i].by \in 1..3
    /\ (script # "clients" /\ cookies = Empty) =>
          /\ Len(invoked) <= 2
          /\ (/\ pc = "done"
              /\ invoked # << >>
              /\ Len(results) = Len(invoked)
              /\ \A k \in DOMAIN results : ~results[k].success) =>
                Len(invoked) = 2

\* C25 witness: a resolution with cookies sent them on its first two
\* requests and has issued the retry with the consent cookies alone.
C25_Witness ==
    /\ script = "cookies"
    /\ cookies = <<"SID=1", "; ", "HSID=2">>
    /\ Len(invoked) = 3
    /\ \E i, j \in BrowserRequests :
          /\ requests[i].by = 1
          /\ requests[i].cookie = cookies \o <<"; ">> \o ConsentCookies
          /\ requests[j].by = 3
          /\ requests[j].cookie = ConsentCookies

\* A resolution without cookies that found no captions called exactly two
\* strategies and sent the consent cookies alone on both.
TwoStrategiesWithoutCredentials ==
    /\ script = "cookies"
    /\ cookies = Empty
    /\ pc = "done"
    /\ Len(invoked) = 2
    /\ Len(results) = 2
    /\ \A k \in DOMAIN results : ~results[k].success
    /\ \A i \in BrowserRequests : requests[i].cookie = ConsentCookies


====
